---- MODULE Spec2Model ----
(***************************************************************************)
(* Multi-agent warehouse simulation (src/Types_Agents/Multi-Agent.py).     *)
(*                                                                         *)
(* The Python program is sequential: every public operation runs to its    *)
(* end (or to a raised exception) before the next one starts.  Each        *)
(* operation is therefore one action.  The methods are operators from a    *)
(* "world" record W (one field per attribute of the program's objects) to  *)
(* the world after the call; an action applies one public method to the    *)
(* current world and stores the result in the variables.                   *)
(***************************************************************************)
EXTENDS Integers, Sequences, FiniteSets, TLC

VARIABLES
    agents,              \* MultiAgentSystem.agents: objects in dict insertion order
    coordinator,         \* MultiAgentSystem.coordinator: an object or NoCoordinator
    message_log,         \* MultiAgentSystem.message_log
    system_metrics,      \* MultiAgentSystem.system_metrics
    position,            \* BaseAgent.position, per object
    state,               \* BaseAgent.state, per object
    battery_level,       \* BaseAgent.battery_level, per object
    message_queue,       \* BaseAgent.message_queue, per object
    current_task,        \* BaseAgent.current_task, per object: <<>> is None, <<t>> is t
    performance_metrics, \* BaseAgent.performance_metrics, per object
    current_load,        \* PickerAgent/TransportAgent.current_load, per object
    pending_orders,      \* CoordinatorAgent.pending_orders, per coordinator object
    resource_status,     \* CoordinatorAgent.resource_status, per coordinator object
    agent_registry,      \* CoordinatorAgent.agent_registry, objects in insertion order
    clock,               \* number of Message objects created so far (their timestamps)
    op,                  \* the public operation that ran last, with its arguments
    raised,              \* the exception that operation ended in, or NoException
    trace,               \* the calls that operation made, in order, with their outcomes
    hist_received,       \* per object: timestamps of all messages receive_message queued
    hist_handled,        \* per object: timestamps of all messages given to handle_message
    hist_added,          \* the objects given to add_agent so far, in call order
    goal_agent,          \* the GoalBasedAgent object: goal, actions, current_plan
    plan_run             \* the frame of its execute_plan call: locals, position in the
                         \* code, and the set of positions the run has been at

vars == <<agents, coordinator, message_log, system_metrics, position, state,
          battery_level, message_queue, current_task, performance_metrics,
          current_load, pending_orders, resource_status, agent_registry,
          clock, op, raised, trace, hist_received, hist_handled, hist_added,
          goal_agent, plan_run>>

----------------------------------------------------------------------------
\* Bounds of the model.

\* add_agent is given the first NumAgents objects of the driver's roster
NumAgents == 3
\* at most MaxMessages Message objects are created
MaxMessages == 2
\* process_order is called at most MaxOrders times
MaxOrders == 2
\* the agent specification adds the coordinator and the first NumWorkers other agents
NumWorkers == 1
\* the registration specification calls add_agent at most MaxAdds times
MaxAdds == 4
\* execute_plan is given goals, start states and obstacles within 0..MaxPosition
MaxPosition == 5

----------------------------------------------------------------------------
\* The agent objects: 1..5 are the ones the driver constructs (run_mas_simulation's
\* roster); 6 and 7 are a second PickerAgent and a second TransportAgent constructed
\* with an identifier already in use; 8 is a second CoordinatorAgent, COORD_02.

AgentObjs == {1, 2, 3, 4, 5, 6, 7, 8}
Duplicates == {6, 7}
OtherCoordinators == {8}
Roster == {o \in AgentObjs \ (Duplicates \cup OtherCoordinators) : o <= NumAgents}

agent_id(o) ==
    CASE o = 1 -> "COORD_01"
      [] o \in {2, 6} -> "PICKER_01"
      [] o \in {3, 7} -> "TRANSPORT_01"
      [] o = 4 -> "PICKER_02"
      [] o = 5 -> "TRANSPORT_02"
      [] o = 8 -> "COORD_02"

agent_type(o) ==
    CASE o \in {1, 8} -> "Coordinator"
      [] o \in {2, 4, 6} -> "Picker"
      [] o \in {3, 5, 7} -> "Transport"

InitialPosition(o) ==
    CASE o \in {1, 8} -> <<5, 5>>
      [] o = 2 -> <<2, 3>>
      [] o = 3 -> <<1, 1>>
      [] o = 4 -> <<7, 8>>
      [] o = 5 -> <<9, 9>>
      [] o \in Duplicates -> <<0, 0>>

CoordinatorObjs == {o \in AgentObjs : agent_type(o) = "Coordinator"}
CarrierObjs == {o \in AgentObjs : agent_type(o) \in {"Picker", "Transport"}}

carrying_capacity(o) == IF agent_type(o) = "Picker" THEN 10 ELSE 50

NoCoordinator == 0
NoException == "none"
BROADCAST == "ALL"

----------------------------------------------------------------------------
\* Python helpers.

Max(a, b) == IF a >= b THEN a ELSE b

\* dict.get(key, default)
Get(d, key, default) == IF key \in DOMAIN d THEN d[key] ELSE default

\* index of the entry of an id-keyed dict (a sequence of objects) with key id, or 0
DictIndex(d, id) ==
    IF \E i \in 1..Len(d) : agent_id(d[i]) = id
    THEN CHOOSE i \in 1..Len(d) : agent_id(d[i]) = id
    ELSE 0

\* d[agent_id(o)] = o: a new key is appended, an existing key keeps its place
DictPut(d, o) ==
    IF DictIndex(d, agent_id(o)) = 0 THEN Append(d, o)
    ELSE [d EXCEPT ![DictIndex(d, agent_id(o))] = o]

Raise(W, exc) == [W EXCEPT !.raised = exc]
Raised(W) == W.raised # NoException
Log(W, event) == [W EXCEPT !.trace = Append(@, event)]

\* random.randint: the next value of the operation's random stream
RandInt(W) == W.rng[1]
Drawn(W) == [W EXCEPT !.rng = Tail(@)]

----------------------------------------------------------------------------
\* BaseAgent

BaseAgent_init(o) ==
    [position |-> InitialPosition(o), state |-> "idle", battery_level |-> 100,
     message_queue |-> <<>>, current_task |-> <<>>,
     performance_metrics |-> [tasks_completed |-> 0, messages_sent |-> 0,
                              messages_received |-> 0, collaboration_count |-> 0]]

receive_message(W, o, message) ==
    LET W1 == [W EXCEPT !.message_queue[o] = Append(@, message)]
        W2 == [W1 EXCEPT !.performance_metrics[o].messages_received = @ + 1]
        W3 == [W2 EXCEPT !.hist_received[o] = Append(@, message.timestamp)]
    IN Log(W3, [call |-> "receive_message", agent |-> o, timestamp |-> message.timestamp])

\* faulty variant: the level is not floored at 0
update_battery_unfloored(W, o, consumption) ==
    [W EXCEPT !.battery_level[o] = @ - consumption]

update_battery(W, o, consumption) ==
    [W EXCEPT !.battery_level[o] = Max(0, @ - consumption)]

----------------------------------------------------------------------------
\* PickerAgent

PickerAgent_move_to_location(W, o, target_location) ==
    LET W1 == [W EXCEPT !.state[o] = "moving"]
        W2 == [W1 EXCEPT !.position[o] = target_location]
    IN update_battery(W2, o, 2)

\* self.move_to_location(...): only PickerAgent defines the method; BaseAgent,
\* TransportAgent and CoordinatorAgent do not, so the attribute lookup fails there
move_to_location(W, o, target_location) ==
    IF agent_type(o) = "Picker"
    THEN PickerAgent_move_to_location(W, o, target_location)
    ELSE Raise(W, "AttributeError")

\* faulty variant: the load is set to the number of items picked, not raised by it
pick_items_replacing_load(W, o, items) ==
    LET W1 == [W EXCEPT !.current_load[o] = Len(items)]
        W2 == update_battery(W1, o, Len(items))
    IN [W2 EXCEPT !.state[o] = "idle"]

\* faulty variant: the picker is not set back to idle after picking
pick_items_keeping_state(W, o, items) ==
    LET W1 == [W EXCEPT !.current_load[o] = @ + Len(items)]
    IN update_battery(W1, o, Len(items))

pick_items(W, o, items) ==
    LET W1 == [W EXCEPT !.current_load[o] = @ + Len(items)]
        W2 == update_battery(W1, o, Len(items))
    IN [W2 EXCEPT !.state[o] = "idle"]

\* faulty variant: a rejected request is kept as the picker's current task
handle_pick_request_keeping_rejected(W, o, request) ==
    LET items_needed == Get(request, "items", <<>>)
        location == Get(request, "location", <<0, 0>>)
        Done(V, accepted) ==
            Log(V, [call |-> "handle_pick_request", agent |-> o, request |-> request,
                    accepted |-> accepted, load_before |-> W.current_load[o],
                    load_after |-> V.current_load[o]])
    IN IF W.state[o] = "idle"
          /\ W.current_load[o] + Len(items_needed) <= carrying_capacity(o)
       THEN LET W1 == [W EXCEPT !.state[o] = "working"]
                W2 == [W1 EXCEPT !.current_task[o] = <<request>>]
                W3 == move_to_location(W2, o, location)
                W4 == pick_items(W3, o, items_needed)
            IN Done([W4 EXCEPT !.performance_metrics[o].tasks_completed = @ + 1], TRUE)
       ELSE Done([W EXCEPT !.current_task[o] = <<request>>], FALSE)

\* faulty variant: the capacity test is left out of the acceptance condition
handle_pick_request_any_load(W, o, request) ==
    LET items_needed == Get(request, "items", <<>>)
        location == Get(request, "location", <<0, 0>>)
        Done(V, accepted) ==
            Log(V, [call |-> "handle_pick_request", agent |-> o, request |-> request,
                    accepted |-> accepted, load_before |-> W.current_load[o],
                    load_after |-> V.current_load[o]])
    IN IF W.state[o] = "idle"
       THEN LET W1 == [W EXCEPT !.state[o] = "working"]
                W2 == [W1 EXCEPT !.current_task[o] = <<request>>]
                W3 == move_to_location(W2, o, location)
                W4 == pick_items(W3, o, items_needed)
            IN Done([W4 EXCEPT !.performance_metrics[o].tasks_completed = @ + 1], TRUE)
       ELSE Done(W, FALSE)

handle_pick_request(W, o, request) ==
    LET items_needed == Get(request, "items", <<>>)
        location == Get(request, "location", <<0, 0>>)
        \* the record of the call: its outcome and the load before and after it
        Done(V, accepted) ==
            Log(V, [call |-> "handle_pick_request", agent |-> o, request |-> request,
                    accepted |-> accepted, load_before |-> W.current_load[o],
                    load_after |-> V.current_load[o]])
    IN IF W.state[o] = "idle"
          /\ W.current_load[o] + Len(items_needed) <= carrying_capacity(o)
       THEN LET W1 == [W EXCEPT !.state[o] = "working"]
                W2 == [W1 EXCEPT !.current_task[o] = <<request>>]
                W3 == move_to_location(W2, o, location)
                W4 == pick_items(W3, o, items_needed)
            IN Done([W4 EXCEPT !.performance_metrics[o].tasks_completed = @ + 1], TRUE)
       ELSE Done(W, FALSE)

handle_collaboration_request(W, o, request) ==
    IF W.state[o] = "idle"
    THEN [W EXCEPT !.performance_metrics[o].collaboration_count = @ + 1]
    ELSE W

PickerAgent_handle_message(W, o, message) ==
    IF message.message_type = "PICK_REQUEST"
    THEN handle_pick_request(W, o, message.content)
    ELSE IF message.message_type = "COLLABORATION_REQUEST"
    THEN handle_collaboration_request(W, o, message.content)
    ELSE W

----------------------------------------------------------------------------
\* TransportAgent

execute_transport(W, o, pickup_loc, delivery_loc, item_count) ==
    LET W1 == move_to_location(W, o, pickup_loc)
        W2 == [W1 EXCEPT !.current_load[o] = @ + item_count]
        W3 == move_to_location(W2, o, delivery_loc)
        W4 == [W3 EXCEPT !.current_load[o] = @ - item_count]
    IN IF Raised(W1) THEN W1
       ELSE IF Raised(W3) THEN W3
       ELSE [W4 EXCEPT !.state[o] = "idle"]

handle_transport_request(W, o, request) ==
    LET pickup_location == Get(request, "pickup_location", <<0, 0>>)
        delivery_location == Get(request, "delivery_location", <<10, 10>>)
        item_count == Get(request, "item_count", 0)
    IN IF W.state[o] = "idle" /\ item_count <= carrying_capacity(o)
       THEN LET W0 == Log(W, [call |-> "handle_transport_request", agent |-> o,
                              request |-> request, accepted |-> TRUE])
                W1 == [W0 EXCEPT !.state[o] = "working"]
                W2 == [W1 EXCEPT !.current_task[o] = <<request>>]
                W3 == execute_transport(W2, o, pickup_location, delivery_location,
                                        item_count)
            IN IF Raised(W3) THEN W3
               ELSE [W3 EXCEPT !.performance_metrics[o].tasks_completed = @ + 1]
       ELSE Log(W, [call |-> "handle_transport_request", agent |-> o,
                    request |-> request, accepted |-> FALSE])

handle_pickup_ready(W, o, notification) == W

TransportAgent_handle_message(W, o, message) ==
    IF message.message_type = "TRANSPORT_REQUEST"
    THEN handle_transport_request(W, o, message.content)
    ELSE IF message.message_type = "PICKUP_READY"
    THEN handle_pickup_ready(W, o, message.content)
    ELSE W

----------------------------------------------------------------------------
\* CoordinatorAgent

CoordinatorAgent_init(o) ==
    [pending_orders |-> <<>>,
     resource_status |-> [charging_stations |-> 3, available_stations |-> 3],
     agent_registry |-> <<>>]

\* faulty variant: an identifier already registered keeps its first agent
register_agent_first_wins(W, c, o) ==
    IF DictIndex(W.agent_registry[c], agent_id(o)) = 0
    THEN [W EXCEPT !.agent_registry[c] = Append(@, o)]
    ELSE W

register_agent(W, c, o) ==
    [W EXCEPT !.agent_registry[c] = DictPut(@, o)]

\* faulty variant: a charging agent counts as available
IsIdle_or_charging(W, kind, o) ==
    agent_type(o) = kind /\ W.state[o] \in {"idle", "charging"}

IsIdle(W, kind, o) == agent_type(o) = kind /\ W.state[o] = "idle"

\* faulty variant: the last idle agent of each role is chosen, not the first
allocate_tasks_last_idle(W, c, order) ==
    LET items_needed == Get(order, "items", <<>>)
        IdlePicker(o) == IsIdle(W, "Picker", o)
        IdleTransport(o) == IsIdle(W, "Transport", o)
        available_pickers == SelectSeq(W.agent_registry[c], IdlePicker)
        available_transporters == SelectSeq(W.agent_registry[c], IdleTransport)
    IN IF available_pickers # <<>> /\ available_transporters # <<>>
       THEN LET picker == available_pickers[Len(available_pickers)]
                x1 == RandInt(W)
                y1 == RandInt(Drawn(W))
                W1 == handle_pick_request(Drawn(Drawn(W)), picker,
                          [items |-> items_needed, location |-> <<x1, y1>>])
                transporter == available_transporters[Len(available_transporters)]
                x2 == RandInt(W1)
                y2 == RandInt(Drawn(W1))
            IN handle_transport_request(Drawn(Drawn(W1)), transporter,
                   [pickup_location |-> W1.position[picker],
                    delivery_location |-> <<x2, y2>>,
                    item_count |-> Len(items_needed)])
       ELSE W

allocate_tasks(W, c, order) ==
    LET items_needed == Get(order, "items", <<>>)
        IdlePicker(o) == IsIdle(W, "Picker", o)
        IdleTransport(o) == IsIdle(W, "Transport", o)
        available_pickers == SelectSeq(W.agent_registry[c], IdlePicker)
        available_transporters == SelectSeq(W.agent_registry[c], IdleTransport)
    IN IF available_pickers # <<>> /\ available_transporters # <<>>
       THEN LET picker == available_pickers[1]
                x1 == RandInt(W)
                y1 == RandInt(Drawn(W))
                W1 == handle_pick_request(Drawn(Drawn(W)), picker,
                          [items |-> items_needed, location |-> <<x1, y1>>])
                transporter == available_transporters[1]
                x2 == RandInt(W1)
                y2 == RandInt(Drawn(W1))
            IN handle_transport_request(Drawn(Drawn(W1)), transporter,
                   [pickup_location |-> W1.position[picker],
                    delivery_location |-> <<x2, y2>>,
                    item_count |-> Len(items_needed)])
       ELSE W

\* faulty variant: the oldest pending order is allocated, not the one just received
handle_order_request_oldest_first(W, c, order) ==
    LET W1 == [W EXCEPT !.pending_orders[c] = Append(@, order)]
    IN allocate_tasks(W1, c, W1.pending_orders[c][1])

handle_order_request(W, c, order) ==
    LET W1 == [W EXCEPT !.pending_orders[c] = Append(@, order)]
    IN allocate_tasks(W1, c, order)

\* faulty variant: a station is granted while the count is >= 0 instead of > 0
handle_resource_request_off_by_one(W, c, request) ==
    LET resource_type == Get(request, "resource_type", "")
        Ret(V, r) ==
            Log([V EXCEPT !.ret = r],
                [call |-> "handle_resource_request", agent |-> c, request |-> request,
                 result |-> r,
                 available_before |-> W.resource_status[c].available_stations,
                 available_after |-> V.resource_status[c].available_stations])
    IN IF resource_type = "charging_station"
       THEN IF W.resource_status[c].available_stations >= 0
            THEN Ret([W EXCEPT !.resource_status[c].available_stations = @ - 1], "True")
            ELSE Ret(W, "False")
       ELSE Ret(W, "None")

\* the returned value is left in W.ret: "True", "False" or "None"
handle_resource_request(W, c, request) ==
    LET resource_type == Get(request, "resource_type", "")
        requesting_agent == Get(request, "agent_id", "")
        \* the record of the call: its result and the pool before and after it
        Ret(V, r) ==
            Log([V EXCEPT !.ret = r],
                [call |-> "handle_resource_request", agent |-> c, request |-> request,
                 result |-> r,
                 available_before |-> W.resource_status[c].available_stations,
                 available_after |-> V.resource_status[c].available_stations])
    IN IF resource_type = "charging_station"
       THEN IF W.resource_status[c].available_stations > 0
            THEN Ret([W EXCEPT !.resource_status[c].available_stations = @ - 1], "True")
            ELSE Ret(W, "False")
       ELSE Ret(W, "None")

handle_status_update(W, c, status) == W

CoordinatorAgent_handle_message(W, c, message) ==
    IF message.message_type = "ORDER_REQUEST"
    THEN handle_order_request(W, c, message.content)
    ELSE IF message.message_type = "RESOURCE_REQUEST"
    THEN handle_resource_request(W, c, message.content)
    ELSE IF message.message_type = "STATUS_UPDATE"
    THEN handle_status_update(W, c, message.content)
    ELSE W

----------------------------------------------------------------------------
\* Message dispatch and the queue drain (BaseAgent.process_messages)

\* self.handle_message(message): the override of the object's class
handle_message(W, o, message) ==
    LET W1 == [W EXCEPT !.hist_handled[o] = Append(@, message.timestamp)]
        W2 == Log(W1, [call |-> "handle_message", agent |-> o,
                       timestamp |-> message.timestamp])
    IN CASE agent_type(o) = "Picker" -> PickerAgent_handle_message(W2, o, message)
         [] agent_type(o) = "Transport" -> TransportAgent_handle_message(W2, o, message)
         [] agent_type(o) = "Coordinator" -> CoordinatorAgent_handle_message(W2, o, message)

\* faulty variant: the newest message is popped first (pop() instead of pop(0))
RECURSIVE process_messages_lifo(_, _)
process_messages_lifo(W, o) ==
    IF W.message_queue[o] = <<>> THEN W
    ELSE LET n == Len(W.message_queue[o])
             message == W.message_queue[o][n]
             W1 == [W EXCEPT !.message_queue[o] = SubSeq(@, 1, n - 1)]
             W2 == handle_message(W1, o, message)
         IN IF Raised(W2) THEN W2 ELSE process_messages_lifo(W2, o)

RECURSIVE process_messages(_, _)
process_messages(W, o) ==
    IF W.message_queue[o] = <<>> THEN W
    ELSE LET message == Head(W.message_queue[o])
             W1 == [W EXCEPT !.message_queue[o] = Tail(@)]
             W2 == handle_message(W1, o, message)
         IN IF Raised(W2) THEN W2 ELSE process_messages(W2, o)

----------------------------------------------------------------------------
\* MultiAgentSystem

\* faulty variant: a coordinator that is added registers the agents already on the bus
add_agent_registering_backlog(W, o) ==
    LET W1 == [W EXCEPT !.agents = DictPut(@, o), !.hist_added = Append(@, o)]
        backlog == SelectSeq(W.agents, LAMBDA a : agent_type(a) # "Coordinator")
    IN IF agent_type(o) = "Coordinator"
       THEN [W1 EXCEPT !.coordinator = o,
                       !.agent_registry[o] = IF @ = <<>> THEN backlog ELSE @]
       ELSE IF W1.coordinator # NoCoordinator THEN register_agent(W1, W1.coordinator, o)
       ELSE W1

add_agent(W, o) ==
    LET W1 == [W EXCEPT !.agents = DictPut(@, o), !.hist_added = Append(@, o)]
    IN IF agent_type(o) = "Coordinator" THEN [W1 EXCEPT !.coordinator = o]
       ELSE IF W1.coordinator # NoCoordinator THEN register_agent(W1, W1.coordinator, o)
       ELSE W1

\* faulty variant: the broadcast does not skip the sender
RECURSIVE Broadcast_to_sender_too(_, _, _)
Broadcast_to_sender_too(W, message, i) ==
    IF i > Len(W.agents) THEN W
    ELSE Broadcast_to_sender_too(receive_message(W, W.agents[i], message), message, i + 1)

\* the broadcast loop of route_message over self.agents.values(), from index i on
RECURSIVE Broadcast(_, _, _)
Broadcast(W, message, i) ==
    IF i > Len(W.agents) THEN W
    ELSE LET agent == W.agents[i]
         IN IF agent_id(agent) # message.sender_id
            THEN Broadcast(receive_message(W, agent, message), message, i + 1)
            ELSE Broadcast(W, message, i + 1)

\* faulty variant: an unknown receiver falls through to the broadcast branch
route_message_unknown_to_all(W, message) ==
    LET W1 == [W EXCEPT !.message_log = Append(@, message)]
        W2 == [W1 EXCEPT !.system_metrics.total_messages = @ + 1]
    IN IF DictIndex(W2.agents, message.receiver_id) # 0
       THEN receive_message(W2, W2.agents[DictIndex(W2.agents, message.receiver_id)],
                            message)
       ELSE Broadcast(W2, message, 1)

\* faulty variant: only a message sent to one agent is logged and counted
route_message_broadcast_unlogged(W, message) ==
    LET W1 == [W EXCEPT !.message_log = Append(@, message)]
        W2 == [W1 EXCEPT !.system_metrics.total_messages = @ + 1]
    IN IF message.receiver_id = BROADCAST THEN Broadcast(W, message, 1)
       ELSE IF DictIndex(W2.agents, message.receiver_id) # 0
       THEN receive_message(W2, W2.agents[DictIndex(W2.agents, message.receiver_id)],
                            message)
       ELSE W2

route_message(W, message) ==
    LET W1 == [W EXCEPT !.message_log = Append(@, message)]
        W2 == [W1 EXCEPT !.system_metrics.total_messages = @ + 1]
    IN IF message.receiver_id = BROADCAST THEN Broadcast(W2, message, 1)
       ELSE IF DictIndex(W2.agents, message.receiver_id) # 0
       THEN receive_message(W2, W2.agents[DictIndex(W2.agents, message.receiver_id)],
                            message)
       ELSE W2

\* Message(...): the timestamp is the creation time
Message(W, sender_id, receiver_id, message_type, content) ==
    [sender_id |-> sender_id, receiver_id |-> receiver_id,
     message_type |-> message_type, content |-> content, timestamp |-> W.clock + 1]

send_message(W, o, receiver_id, message_type, content) ==
    LET message == Message(W, agent_id(o), receiver_id, message_type, content)
        W1 == route_message([W EXCEPT !.clock = @ + 1], message)
    IN [W1 EXCEPT !.performance_metrics[o].messages_sent = @ + 1]

\* faulty variant: the order is counted only when a coordinator takes it
process_order_counting_coordinated(W, order) ==
    IF W.coordinator # NoCoordinator
    THEN handle_order_request([W EXCEPT !.system_metrics.orders_processed = @ + 1],
                              W.coordinator, order)
    ELSE W

process_order(W, order) ==
    LET W1 == [W EXCEPT !.system_metrics.orders_processed = @ + 1]
    IN IF W1.coordinator # NoCoordinator
       THEN handle_order_request(W1, W1.coordinator, order)
       ELSE W1

\* faulty variant: the agent is charged whatever the coordinator answered
RECURSIVE ChargeEach_ignoring_answer(_, _, _)
ChargeEach_ignoring_answer(W, low_battery_agents, i) ==
    IF i > Len(low_battery_agents) THEN W
    ELSE LET agent == low_battery_agents[i]
             W1 == handle_resource_request(W, W.coordinator,
                       [resource_type |-> "charging_station", agent_id |-> agent_id(agent)])
             W2 == [W1 EXCEPT !.state[agent] = "charging"]
             W3 == [W2 EXCEPT !.battery_level[agent] = 100]
         IN ChargeEach_ignoring_answer(W3, low_battery_agents, i + 1)

\* faulty variant: the station is given back as soon as the agent is charged
RECURSIVE ChargeEach_releasing(_, _, _)
ChargeEach_releasing(W, low_battery_agents, i) ==
    IF i > Len(low_battery_agents) THEN W
    ELSE LET agent == low_battery_agents[i]
             W1 == handle_resource_request(W, W.coordinator,
                       [resource_type |-> "charging_station", agent_id |-> agent_id(agent)])
             W2 == [W1 EXCEPT !.state[agent] = "charging"]
             W3 == [W2 EXCEPT !.battery_level[agent] = 100]
             W4 == [W3 EXCEPT !.resource_status[W.coordinator].available_stations = @ + 1]
         IN IF W1.ret = "True"
            THEN ChargeEach_releasing(W4, low_battery_agents, i + 1)
            ELSE ChargeEach_releasing(W1, low_battery_agents, i + 1)

\* the charging loop of simulate_resource_competition over low_battery_agents
RECURSIVE ChargeEach(_, _, _)
ChargeEach(W, low_battery_agents, i) ==
    IF i > Len(low_battery_agents) THEN W
    ELSE LET agent == low_battery_agents[i]
             W1 == handle_resource_request(W, W.coordinator,
                       [resource_type |-> "charging_station", agent_id |-> agent_id(agent)])
             W2 == [W1 EXCEPT !.state[agent] = "charging"]
             W3 == [W2 EXCEPT !.battery_level[agent] = 100]
         IN IF W1.ret = "True"
            THEN ChargeEach(W3, low_battery_agents, i + 1)
            ELSE ChargeEach(W1, low_battery_agents, i + 1)

IsLowBattery(W, o) == W.battery_level[o] < 30 /\ agent_type(o) # "Coordinator"

simulate_resource_competition(W) ==
    LET Low(o) == IsLowBattery(W, o)
        low_battery_agents == SelectSeq(W.agents, Low)
    IN IF low_battery_agents # <<>> /\ W.coordinator # NoCoordinator
       THEN ChargeEach(W, low_battery_agents, 1)
       ELSE W

\* the drain loop of simulate_step over self.agents.values(), from index i on
RECURSIVE DrainEach(_, _)
DrainEach(W, i) ==
    IF i > Len(W.agents) THEN W
    ELSE LET W1 == process_messages(W, W.agents[i])
         IN IF Raised(W1) THEN W1 ELSE DrainEach(W1, i + 1)

simulate_step(W) ==
    LET W1 == DrainEach(W, 1)
    IN IF Raised(W1) THEN W1 ELSE simulate_resource_competition(W1)

\* prints the metrics and every agent's status; changes nothing
get_system_status(W) == W

----------------------------------------------------------------------------
\* run_mas_simulation

\* the order in which the driver adds its agents
DriverRoster == <<1, 2, 4, 3, 5>>

DriverOrders ==
    <<[order_id |-> "ORD_001", items |-> <<"item1", "item2", "item3">>, priority |-> "high"],
      [order_id |-> "ORD_002", items |-> <<"item4", "item5">>, priority |-> "normal"],
      [order_id |-> "ORD_003", items |-> <<"item6", "item7", "item8", "item9">>,
       priority |-> "low"]>>

\* the battery drain loop of the driver over mas.agents.values(), from index i on
RECURSIVE drain_batteries(_, _)
drain_batteries(W, i) ==
    IF i > Len(W.agents) THEN W
    ELSE LET agent == W.agents[i]
         IN IF agent_type(agent) # "Coordinator"
            THEN drain_batteries(update_battery(Drawn(W), agent, RandInt(W)), i + 1)
            ELSE drain_batteries(W, i + 1)

----------------------------------------------------------------------------
\* GoalBasedAgent (Goal_Based.py)

GoalBasedAgent_init(target_goal) ==
    [goal |-> target_goal, actions |-> <<>>, current_plan |-> <<>>]

\* path_planning(current_state, obstacles): the agent afterwards and the string returned
path_planning(G, current_state, obstacles) ==
    LET Answer(name, text) == [agent |-> [G EXCEPT !.actions = Append(@, name)],
                               ret |-> text]
    IN IF current_state = G.goal THEN Answer("Goal_Achieved", "Goal achieved")
       ELSE IF current_state \in obstacles
       THEN Answer("Avoid_Obstacle", "Replan to avoid obstacle")
       ELSE IF current_state < G.goal
       THEN IF current_state + 1 \in obstacles
            THEN Answer("Path_Blocked", "Find alternative path")
            ELSE Answer("Move_Forward", "Move closer")
       ELSE IF current_state - 1 \in obstacles
            THEN Answer("Path_Blocked", "Find alternative path")
            ELSE Answer("Move_Backward", "Adjust path")

\* word in action, for the strings path_planning returns
Mentions(action, word) ==
    CASE word = "alternative path" -> action = "Find alternative path"
      [] word = "obstacle" -> action = "Replan to avoid obstacle"

max_steps == 20

\* execute_plan has not been called
NotCalled ==
    [pc |-> "none", obstacles |-> {}, current_state |-> 0, step_count |-> 0,
     visited |-> {}, ret |-> 0]

\* the while condition of execute_plan
LoopCondition(G, R) == R.current_state # G.goal /\ R.step_count < max_steps

\* faulty variant: an obstacle jump is not counted as a step
execute_plan_step_free_jumps(G, R) ==
    LET planned == path_planning(G, R.current_state, R.obstacles)
        action == planned.ret
        jump == IF R.current_state < G.goal THEN R.current_state + 2
                ELSE R.current_state - 2
        Moved(to, n) == [R EXCEPT !.step_count = n, !.current_state = to,
                                  !.visited = @ \cup {to}]
    IN [agent |-> planned.agent,
        run |-> IF action = "Goal achieved" THEN [R EXCEPT !.pc = "after"]
                ELSE IF action = "Move closer"
                THEN Moved(R.current_state + 1, R.step_count + 1)
                ELSE IF action = "Adjust path"
                THEN Moved(R.current_state - 1, R.step_count + 1)
                ELSE IF Mentions(action, "alternative path") \/ Mentions(action, "obstacle")
                THEN Moved(jump, R.step_count)
                ELSE Moved(R.current_state, R.step_count + 1)]

\* one iteration of the while loop of execute_plan
execute_plan_step(G, R) ==
    LET R1 == [R EXCEPT !.step_count = @ + 1]
        planned == path_planning(G, R1.current_state, R1.obstacles)
        action == planned.ret
        jump == IF R1.current_state < G.goal THEN R1.current_state + 2
                ELSE R1.current_state - 2
        Moved(to) == [R1 EXCEPT !.current_state = to, !.visited = @ \cup {to}]
    IN [agent |-> planned.agent,
        run |-> IF action = "Goal achieved" THEN [R1 EXCEPT !.pc = "after"]
                ELSE IF action = "Move closer" THEN Moved(R1.current_state + 1)
                ELSE IF action = "Adjust path" THEN Moved(R1.current_state - 1)
                ELSE IF Mentions(action, "alternative path") \/ Mentions(action, "obstacle")
                THEN Moved(jump)
                ELSE Moved(R1.current_state)]

----------------------------------------------------------------------------
\* The inputs of the model.

\* orders of run_mas_simulation (its first and its third)
Orders ==
    {[order_id |-> "ORD_001", items |-> <<"item1", "item2", "item3">>, priority |-> "high"],
     [order_id |-> "ORD_003", items |-> <<"item6", "item7", "item8", "item9">>,
      priority |-> "low"]}

SevenItems == <<"item1", "item2", "item3", "item4", "item5", "item6", "item7">>

\* (message_type, content) pairs given to send_message
MessageInputs ==
    {<<"PICK_REQUEST", [items |-> <<"item1", "item2", "item3">>, location |-> <<1, 1>>]>>,
     <<"PICK_REQUEST", [items |-> SevenItems, location |-> <<1, 10>>]>>,
     <<"TRANSPORT_REQUEST", [pickup_location |-> <<1, 1>>, delivery_location |-> <<2, 2>>,
                             item_count |-> 3]>>,
     <<"ORDER_REQUEST", [order_id |-> "ORD_001", items |-> <<"item1", "item2", "item3">>,
                         priority |-> "high"]>>,
     <<"STATUS_UPDATE", [agent_id |-> "PICKER_01", status |-> "ok"]>>}

\* the (message_type, content) pairs the bus specification sends
BusInputs == {input \in MessageInputs : input[1] # "STATUS_UPDATE" /\ Len(Get(input[2], "items", SevenItems)) = 7}


\* receiver ids given to send_message: the roster, the broadcast marker, an unknown id
ReceiverIds == {agent_id(o) : o \in Roster} \cup {BROADCAST, "NOBODY"}

\* the values drawn for random.randint(1, 10): both ends of the range
RandValues == {1, 10}

\* amounts given to update_battery from outside, for agents whose battery is not low
Consumptions == {85}

\* the values random.randint returns during one operation
RandomStreams(n) == [1..n -> RandValues]

OnBus(o) == \E i \in 1..Len(agents) : agents[i] = o

\* ORDER_REQUEST messages queued at object o
QueuedOrders(o) ==
    Len(SelectSeq(message_queue[o], LAMBDA m : m.message_type = "ORDER_REQUEST"))

\* allocations a process_order call makes: one if a coordinator is set and its
\* registry holds an idle Picker and an idle Transport agent (each draws 4 integers)
OrderAllocations ==
    IF /\ coordinator # NoCoordinator
       /\ \E i, j \in 1..Len(agent_registry[coordinator]) :
            /\ IsIdle([state |-> state], "Picker", agent_registry[coordinator][i])
            /\ IsIdle([state |-> state], "Transport", agent_registry[coordinator][j])
    THEN 1 ELSE 0

\* ORDER_REQUEST messages queued at the agents on the bus, from index i on
RECURSIVE BusQueuedOrders(_)
BusQueuedOrders(i) ==
    IF i > Len(agents) THEN 0 ELSE QueuedOrders(agents[i]) + BusQueuedOrders(i + 1)

----------------------------------------------------------------------------
\* The state machine.

World(call, rng) ==
    [agents |-> agents, coordinator |-> coordinator, message_log |-> message_log,
     system_metrics |-> system_metrics, position |-> position, state |-> state,
     battery_level |-> battery_level, message_queue |-> message_queue,
     current_task |-> current_task, performance_metrics |-> performance_metrics,
     current_load |-> current_load, pending_orders |-> pending_orders,
     resource_status |-> resource_status, agent_registry |-> agent_registry,
     clock |-> clock, hist_received |-> hist_received, hist_handled |-> hist_handled,
     hist_added |-> hist_added,
     op |-> call, raised |-> NoException, trace |-> <<>>, ret |-> "None", rng |-> rng]

Apply(W) ==
    /\ agents' = W.agents
    /\ coordinator' = W.coordinator
    /\ message_log' = W.message_log
    /\ system_metrics' = W.system_metrics
    /\ position' = W.position
    /\ state' = W.state
    /\ battery_level' = W.battery_level
    /\ message_queue' = W.message_queue
    /\ current_task' = W.current_task
    /\ performance_metrics' = W.performance_metrics
    /\ current_load' = W.current_load
    /\ pending_orders' = W.pending_orders
    /\ resource_status' = W.resource_status
    /\ agent_registry' = W.agent_registry
    /\ clock' = W.clock
    /\ hist_received' = W.hist_received
    /\ hist_handled' = W.hist_handled
    /\ hist_added' = W.hist_added
    /\ UNCHANGED <<goal_agent, plan_run>>
    /\ op' = W.op
    /\ raised' = W.raised
    /\ trace' = W.trace

Init ==
    /\ agents = <<>>
    /\ coordinator = NoCoordinator
    /\ message_log = <<>>
    /\ system_metrics = [total_messages |-> 0, orders_processed |-> 0,
                         collaboration_instances |-> 0]
    /\ position = [o \in AgentObjs |-> BaseAgent_init(o).position]
    /\ state = [o \in AgentObjs |-> BaseAgent_init(o).state]
    /\ battery_level = [o \in AgentObjs |-> BaseAgent_init(o).battery_level]
    /\ message_queue = [o \in AgentObjs |-> BaseAgent_init(o).message_queue]
    /\ current_task = [o \in AgentObjs |-> BaseAgent_init(o).current_task]
    /\ performance_metrics = [o \in AgentObjs |-> BaseAgent_init(o).performance_metrics]
    /\ current_load = [o \in CarrierObjs |-> 0]
    /\ pending_orders = [c \in CoordinatorObjs |-> CoordinatorAgent_init(c).pending_orders]
    /\ resource_status = [c \in CoordinatorObjs |-> CoordinatorAgent_init(c).resource_status]
    /\ agent_registry = [c \in CoordinatorObjs |-> CoordinatorAgent_init(c).agent_registry]
    /\ clock = 0
    /\ op = [name |-> "init"]
    /\ raised = NoException
    /\ trace = <<>>
    /\ hist_received = [o \in AgentObjs |-> <<>>]
    /\ hist_handled = [o \in AgentObjs |-> <<>>]
    /\ hist_added = <<>>
    /\ goal_agent = GoalBasedAgent_init(0)
    /\ plan_run = NotCalled

\* the driver adds its agents before it does anything else
AddAgent ==
    \E o \in Roster :
        /\ ~OnBus(o)
        /\ op.name \in {"init", "add_agent"}
        /\ Apply(add_agent(World([name |-> "add_agent", agent |-> o], <<>>), o))

\* the sender is the first agent on the bus
SendMessage ==
    \E o \in Roster, receiver_id \in ReceiverIds, input \in BusInputs :
        /\ agents # <<>> /\ o = agents[1]
        /\ clock < MaxMessages
        /\ Apply(send_message(World([name |-> "send_message", agent |-> o,
                                     receiver_id |-> receiver_id], <<>>),
                              o, receiver_id, input[1], input[2]))

ProcessMessages ==
    \E o \in AgentObjs :
        /\ OnBus(o)
        /\ message_queue[o] # <<>>
        /\ \E rng \in RandomStreams(4 * QueuedOrders(o)) :
            Apply(process_messages(World([name |-> "process_messages", agent |-> o], rng), o))

ProcessOrder ==
    \E order \in Orders, rng \in RandomStreams(4 * OrderAllocations) :
        /\ system_metrics.orders_processed < MaxOrders
        /\ Apply(process_order(World([name |-> "process_order", order |-> order], rng),
                               order))

SimulateStep ==
    \E rng \in RandomStreams(4 * BusQueuedOrders(1)) :
        Apply(simulate_step(World([name |-> "simulate_step"], rng)))

\* the driver's battery drain of a non-coordinator agent (lines 466-468); the
\* model drains an agent only while its battery is not low
UpdateBattery ==
    \E o \in CarrierObjs, consumption \in Consumptions :
        /\ OnBus(o)
        /\ battery_level[o] >= 30
        /\ Apply(update_battery(World([name |-> "update_battery"], <<>>),
                                o, consumption))

\* the operations run_mas_simulation invokes
Next ==
    \/ AddAgent
    \/ ProcessOrder
    \/ SimulateStep
    \/ UpdateBattery

Spec == Init /\ [][Next]_vars

\* the message operations (the driver sends no message)
NextBus ==
    \/ AddAgent
    \/ SendMessage
    \/ ProcessMessages
    \/ SimulateStep

SpecBus == Init /\ [][NextBus]_vars

\* The driver.  Its body (the loop over the orders and the final status) is run
\* from every non-empty prefix of its roster; the full roster is the driver itself.
\* A raised exception ends the run: nothing catches it.

\* the values drawn for random.randint(5, 15): both ends of the range
DrainValues == {5, 15}

\* the non-coordinator agents on the bus (each draws one integer in the drain loop)
Drained == Len(SelectSeq(agents, LAMBDA o : agent_type(o) # "Coordinator"))

DriverAddAgent ==
    /\ op.name \in {"init", "add_agent"}
    /\ Len(agents) < Len(DriverRoster)
    /\ LET o == DriverRoster[Len(agents) + 1]
       IN Apply(add_agent(World([name |-> "add_agent", agent |-> o], <<>>), o))

DriverProcessOrder ==
    /\ raised = NoException
    /\ op.name \in {"add_agent", "drain_batteries"}
    /\ system_metrics.orders_processed < Len(DriverOrders)
    /\ LET order == DriverOrders[system_metrics.orders_processed + 1]
       IN \E rng \in RandomStreams(4 * OrderAllocations) :
            Apply(process_order(World([name |-> "process_order", order |-> order], rng),
                                order))

DriverSimulateStep ==
    /\ raised = NoException
    /\ op.name = "process_order"
    /\ \E rng \in RandomStreams(4 * BusQueuedOrders(1)) :
         Apply(simulate_step(World([name |-> "simulate_step"], rng)))

DriverDrainBatteries ==
    /\ raised = NoException
    /\ op.name = "simulate_step"
    /\ \E rng \in [1..Drained -> DrainValues] :
         Apply(drain_batteries(World([name |-> "drain_batteries"], rng), 1))

DriverStatus ==
    /\ raised = NoException
    /\ op.name = "drain_batteries"
    /\ system_metrics.orders_processed = Len(DriverOrders)
    /\ Apply(get_system_status(World([name |-> "get_system_status"], <<>>)))

NextDriver ==
    \/ DriverAddAgent
    \/ DriverProcessOrder
    \/ DriverSimulateStep
    \/ DriverDrainBatteries
    \/ DriverStatus

SpecDriver == Init /\ [][NextDriver]_vars

\* One agent's operations: batteries are drained by any amount at any level, the
\* contention pass runs, and pickers are handed pick requests directly.

\* amounts given to update_battery: none, down to 25 from full, below the floor
DrainAmounts == {0, 25, 75}

\* the contents of the PICK_REQUEST inputs
PickRequests == {input[2] : input \in {i \in MessageInputs : i[1] = "PICK_REQUEST"}}

\* the coordinator and the first NumWorkers other agents are added, in that order
AddWorker ==
    \E o \in AgentObjs \ Duplicates :
        /\ o = Len(agents) + 1
        /\ o <= NumWorkers + 1
        /\ op.name \in {"init", "add_agent"}
        /\ Apply(add_agent(World([name |-> "add_agent", agent |-> o], <<>>), o))

DrainBattery ==
    \E o \in CarrierObjs, consumption \in DrainAmounts :
        /\ OnBus(o)
        /\ Apply(update_battery(World([name |-> "update_battery", agent |-> o,
                                       consumption |-> consumption], <<>>),
                                o, consumption))

HandlePickRequest ==
    \E o \in CarrierObjs, request \in PickRequests :
        /\ OnBus(o)
        /\ agent_type(o) = "Picker"
        /\ Apply(handle_pick_request(World([name |-> "handle_pick_request", agent |-> o,
                                            request |-> request], <<>>),
                                     o, request))

NextAgent ==
    \/ AddWorker
    \/ DrainBattery
    \/ SimulateStep
    \/ HandlePickRequest

SpecAgent == Init /\ [][NextAgent]_vars

\* Allocation: orders arrive while pickers are handed pick requests directly, so
\* that an order can meet an idle picker that is already loaded.
NextAllocation ==
    \/ AddAgent
    \/ HandlePickRequest
    \/ ProcessOrder

SpecAllocation == Init /\ [][NextAllocation]_vars

\* The choice among several agents of a role: the driver's roster of two pickers and
\* two transporters, with orders and direct moves in any order.
\* the location given to a direct move_to_location call
MoveTargets == {<<1, 1>>}

\* move_to_location called directly, on an agent that is not moving already
MoveToLocation ==
    \E o \in CarrierObjs, target_location \in MoveTargets :
        /\ OnBus(o)
        /\ state[o] # "moving"
        /\ Apply(move_to_location(World([name |-> "move_to_location", agent |-> o], <<>>),
                                  o, target_location))

NextChoice ==
    \/ DriverAddAgent
    \/ ProcessOrder
    \/ MoveToLocation

SpecChoice == Init /\ [][NextChoice]_vars

\* Orders that wait: the roster is added in its order but at any time, so that an
\* order can arrive before the agents it needs and other orders and steps follow.
AddAgentLate ==
    \E o \in Roster :
        /\ o = Len(agents) + 1
        /\ Apply(add_agent(World([name |-> "add_agent", agent |-> o], <<>>), o))

NextPending ==
    \/ AddAgentLate
    \/ ProcessOrder
    \/ SimulateStep

SpecPending == Init /\ [][NextPending]_vars

\* GoalBasedAgent(goal).execute_plan(start_state, obstacles), one loop iteration
\* at a time; the program runs on until the call has returned.

Positions == 0..MaxPosition
ObstacleSets == SUBSET (1..MaxPosition)

MASUnchanged ==
    UNCHANGED <<agents, coordinator, message_log, system_metrics, position, state,
                battery_level, message_queue, current_task, performance_metrics,
                current_load, pending_orders, resource_status, agent_registry,
                clock, op, raised, trace, hist_received, hist_handled, hist_added>>

ExecutePlan ==
    \E goal \in Positions, start_state \in Positions, obstacles \in ObstacleSets :
        /\ plan_run.pc = "none"
        /\ goal_agent' = GoalBasedAgent_init(goal)
        /\ plan_run' = [pc |-> "loop", obstacles |-> obstacles,
                        current_state |-> start_state, step_count |-> 0,
                        visited |-> {start_state}, ret |-> 0]
        /\ MASUnchanged

PlanStep ==
    /\ plan_run.pc = "loop"
    /\ LoopCondition(goal_agent, plan_run)
    /\ goal_agent' = execute_plan_step(goal_agent, plan_run).agent
    /\ plan_run' = execute_plan_step(goal_agent, plan_run).run
    /\ MASUnchanged

PlanReturn ==
    /\ \/ plan_run.pc = "after"
       \/ plan_run.pc = "loop" /\ ~LoopCondition(goal_agent, plan_run)
    /\ plan_run' = [plan_run EXCEPT !.pc = "done", !.ret = plan_run.current_state]
    /\ UNCHANGED goal_agent
    /\ MASUnchanged

NextGoal ==
    \/ ExecutePlan
    \/ PlanStep
    \/ PlanReturn

SpecGoal == Init /\ [][NextGoal]_vars /\ WF_vars(NextGoal)

\* Registration: add_agent is called at most MaxAdds times, for any object, also for
\* one whose identifier is already on the bus and for one that is already on the bus.
RegistryObjs == Roster \cup Duplicates \cup OtherCoordinators

RegistryAddAgent ==
    \E o \in RegistryObjs :
        /\ Len(hist_added) < MaxAdds
        /\ Apply(add_agent(World([name |-> "add_agent", agent |-> o], <<>>), o))

NextRegistry == RegistryAddAgent

SpecRegistry == Init /\ [][NextRegistry]_vars

----------------------------------------------------------------------------
\* Properties.

\* the records of the calls of one method among the calls of an operation
Calls(tr, method) == SelectSeq(tr, LAMBDA e : e.call = method)

Pickers == {o \in AgentObjs : agent_type(o) = "Picker"}
Transporters == {o \in AgentObjs : agent_type(o) = "Transport"}

\* the objects in a coordinator's registry
Registered(c) == {agent_registry[c][i] : i \in 1..Len(agent_registry[c])}

\* C1: from a coordinator whose registry holds exactly one idle Picker at (2,3) and
\* one idle Transport agent at (1,1), processing an order of 3 items issues exactly
\* one pick request and exactly one transport request, and afterwards both agents
\* are idle with tasks_completed one higher than before.
C1_AllocationSuccess ==
    [][\A p \in Pickers, t \in Transporters :
          ( /\ coordinator # NoCoordinator
            /\ Registered(coordinator) = {p, t}
            /\ state[p] = "idle" /\ position[p] = <<2, 3>>
            /\ state[t] = "idle" /\ position[t] = <<1, 1>>
            /\ op'.name = "process_order"
            /\ Len(op'.order.items) = 3 )
          => ( /\ Len(Calls(trace', "handle_pick_request")) = 1
               /\ Len(Calls(trace', "handle_transport_request")) = 1
               /\ state'[p] = "idle"
               /\ state'[t] = "idle"
               /\ performance_metrics'[p].tasks_completed
                    = performance_metrics[p].tasks_completed + 1
               /\ performance_metrics'[t].tasks_completed
                    = performance_metrics[t].tasks_completed + 1 )]_vars

\* C2: no operation (add_agent, process_order, send_message, process_messages,
\* simulate_step, update_battery) ends in a raised exception.
C2_NoOperationRaises == raised = NoException

C4_ResourcePool ==
    /\ \A c \in CoordinatorObjs :
          /\ 0 <= resource_status[c].available_stations
          /\ resource_status[c].available_stations <= resource_status[c].charging_stations
    /\ \A i \in 1..Len(trace) :
          trace[i].call = "handle_resource_request"
          => IF trace[i].result = "True"
             THEN trace[i].available_after = trace[i].available_before - 1
             ELSE trace[i].available_after = trace[i].available_before

\* one contention pass granted the last station and then denied a request
C4_Witness ==
    \E i, j \in 1..Len(trace) :
        /\ trace[i].call = "handle_resource_request" /\ trace[i].result = "True"
        /\ trace[j].call = "handle_resource_request" /\ trace[j].result = "False"
        /\ trace[j].available_before = 0
        /\ resource_status[trace[j].agent].available_stations = 0

\* the non-coordinator agents on the bus whose battery is low, in iteration order
LowBatteryOnBus ==
    SelectSeq(agents, LAMBDA o : battery_level[o] < 30 /\ agent_type(o) # "Coordinator")

Min(a, b) == IF a <= b THEN a ELSE b

\* C5: a contention pass with k low-battery agents and n available stations grants
\* exactly min(k, n) requests, to the first agents in iteration order; a granted
\* agent's battery becomes 100, a denied agent keeps its battery level and state.
C5_ChargingContention ==
    [][( /\ op'.name = "simulate_step"
         /\ coordinator # NoCoordinator
         /\ \A i \in 1..Len(agents) : message_queue[agents[i]] = <<>> )
       => LET low == LowBatteryOnBus
              n == resource_status[coordinator].available_stations
              granted == Min(Len(low), n)
              requests == Calls(trace', "handle_resource_request")
          IN /\ Len(requests) = Len(low)
             /\ \A i \in 1..Len(low) :
                   /\ requests[i].request.agent_id = agent_id(low[i])
                   /\ IF i <= granted
                      THEN /\ requests[i].result = "True"
                           /\ battery_level'[low[i]] = 100
                      ELSE /\ requests[i].result = "False"
                           /\ battery_level'[low[i]] = battery_level[low[i]]
                           /\ state'[low[i]] = state[low[i]]
             /\ resource_status'[coordinator].available_stations = n - granted]_vars

\* two agents asked for the one station left: the first is at 100, the second still at 15
C5_Witness ==
    /\ op.name = "simulate_step"
    /\ Len(trace) = 2
    /\ trace[1].call = "handle_resource_request" /\ trace[1].result = "True"
    /\ trace[1].available_before = 1
    /\ trace[2].call = "handle_resource_request" /\ trace[2].result = "False"
    /\ \E a, b \in AgentObjs :
          /\ trace[1].request.agent_id = agent_id(a) /\ battery_level[a] = 100
          /\ trace[2].request.agent_id = agent_id(b) /\ battery_level[b] = 15

\* the timestamps of the messages in an agent's queue, oldest first
QueueStamps(o) == [i \in 1..Len(message_queue[o]) |-> message_queue[o][i].timestamp]

\* C6: the messages an agent has handled, followed by those still in its queue, are
\* the messages it received, in the order it received them: none is dropped,
\* handled twice or handled out of order.
C6_FifoExactlyOnce ==
    \A o \in AgentObjs : hist_handled[o] \o QueueStamps(o) = hist_received[o]

\* an agent has handled two messages and its queue is empty
C6_Witness ==
    \E o \in AgentObjs :
        /\ Len(hist_handled[o]) >= 2
        /\ message_queue[o] = <<>>
        /\ op.name = "process_messages"

\* C7: routing a message to 'ALL' appends it once to the queue of every agent on
\* the bus other than the sender, and to no other queue.
C7_BroadcastDelivery ==
    [][( /\ op'.name = "send_message"
         /\ op'.receiver_id = BROADCAST )
       => LET message == message_log'[Len(message_log')]
          IN \A o \in AgentObjs :
                message_queue'[o] =
                    IF OnBus(o) /\ agent_id(o) # message.sender_id
                    THEN Append(message_queue[o], message)
                    ELSE message_queue[o]]_vars

\* a broadcast has reached two agents and not its sender
C7_Witness ==
    /\ op.name = "send_message"
    /\ op.receiver_id = BROADCAST
    /\ LET message == message_log[Len(message_log)]
           HasLast(o) == /\ message_queue[o] # <<>>
                         /\ message_queue[o][Len(message_queue[o])] = message
       IN /\ \E a, b \in AgentObjs : a # b /\ OnBus(a) /\ OnBus(b) /\ HasLast(a) /\ HasLast(b)
          /\ OnBus(op.agent)
          /\ \A i \in 1..Len(message_queue[op.agent]) :
                message_queue[op.agent][i].timestamp # message.timestamp

\* the receiver id is neither 'ALL' nor the id of an agent on the bus
Unroutable(receiver_id) ==
    /\ receiver_id # BROADCAST
    /\ \A i \in 1..Len(agents) : agent_id(agents[i]) # receiver_id

\* C8: routing a message to an unknown receiver raises nothing and leaves every
\* agent's queue and messages_received counter unchanged.
C8_UnroutableMessage ==
    [][( /\ op'.name = "send_message"
         /\ Unroutable(op'.receiver_id) )
       => ( /\ raised' = NoException
            /\ message_queue' = message_queue
            /\ \A o \in AgentObjs :
                  performance_metrics'[o].messages_received
                    = performance_metrics[o].messages_received )]_vars

\* a message to an unknown receiver was routed on a bus of at least two agents
C8_Witness ==
    /\ op.name = "send_message"
    /\ Unroutable(op.receiver_id)
    /\ Len(agents) >= 2
    /\ message_log[Len(message_log)].receiver_id = op.receiver_id
    /\ trace = <<>>

\* C9: total_messages is the number of log entries, the log is in routing order,
\* and every message delivered to an agent is in the log exactly once.
C9_BusLog ==
    /\ system_metrics.total_messages = Len(message_log)
    /\ \A i, j \in 1..Len(message_log) :
          i < j => message_log[i].timestamp < message_log[j].timestamp
    /\ \A o \in AgentObjs : \A k \in 1..Len(hist_received[o]) :
          Cardinality({i \in 1..Len(message_log) :
                          message_log[i].timestamp = hist_received[o][k]}) = 1

\* two messages were routed, one delivered by broadcast and one to a single agent
C9_Witness ==
    /\ Len(message_log) = 2
    /\ \E i, j \in 1..2 :
          /\ message_log[i].receiver_id = BROADCAST
          /\ message_log[j].receiver_id \notin {BROADCAST, "NOBODY"}
          /\ \E o \in AgentObjs : Len(hist_received[o]) = 2

\* C10: an order processed while the coordinator's registry holds no idle Picker
\* causes no pick and no transport request, changes no agent's state, load,
\* position, battery or counters, and is in pending_orders afterwards.
C10_AllocationStarvation ==
    [][( /\ op'.name = "process_order"
         /\ coordinator # NoCoordinator
         /\ \A p \in Registered(coordinator) :
               ~(agent_type(p) = "Picker" /\ state[p] = "idle") )
       => ( /\ Calls(trace', "handle_pick_request") = <<>>
            /\ Calls(trace', "handle_transport_request") = <<>>
            /\ state' = state
            /\ current_load' = current_load
            /\ position' = position
            /\ battery_level' = battery_level
            /\ performance_metrics' = performance_metrics
            /\ \E i \in 1..Len(pending_orders'[coordinator]) :
                  pending_orders'[coordinator][i] = op'.order )]_vars

\* an order was processed while the only registered Picker was charging and an idle
\* Transport agent was registered
C10_Witness ==
    /\ op.name = "process_order"
    /\ coordinator # NoCoordinator
    /\ \E p \in Registered(coordinator) : agent_type(p) = "Picker" /\ state[p] = "charging"
    /\ \A p \in Registered(coordinator) : ~(agent_type(p) = "Picker" /\ state[p] = "idle")
    /\ \E t \in Registered(coordinator) : agent_type(t) = "Transport" /\ state[t] = "idle"
    /\ trace = <<>>
    /\ pending_orders[coordinator][Len(pending_orders[coordinator])] = op.order

----------------------------------------------------------------------------
\* the indices of the entries of an id-keyed dict with key id
Entries(d, id) == {i \in 1..Len(d) : agent_id(d[i]) = id}

\* C11: idempotent registration.  When add_agent registers an agent whose identifier
\* is already in the coordinator's registry, the registry afterwards holds exactly
\* one entry for that identifier, that entry is the agent just registered, and every
\* other entry is the one it was, at the place it was.
C11_IdempotentRegistration ==
    [][\A o \in AgentObjs :
         (/\ op'.name = "add_agent" /\ op'.agent = o
          /\ coordinator # NoCoordinator /\ agent_type(o) # "Coordinator"
          /\ Entries(agent_registry[coordinator], agent_id(o)) # {})
         => LET before == agent_registry[coordinator]
                after == agent_registry'[coordinator]
            IN /\ coordinator' = coordinator
               /\ Cardinality(Entries(after, agent_id(o))) = 1
               /\ \A i \in Entries(after, agent_id(o)) : after[i] = o
               /\ Len(after) = Len(before)
               /\ \A i \in 1..Len(before) :
                     agent_id(before[i]) # agent_id(o) => after[i] = before[i]]_vars

\* an agent with a used identifier has replaced the first of two registry entries
C11_Witness ==
    /\ op.name = "add_agent" /\ op.agent \in Duplicates
    /\ coordinator # NoCoordinator
    /\ Len(agent_registry[coordinator]) = 2
    /\ agent_registry[coordinator][1] = op.agent

----------------------------------------------------------------------------
\* the driver's run has ended: an exception has left it, or it has printed the status
DriverStopped == raised # NoException \/ op.name = "get_system_status"

\* C13: the driver runs to completion.  From the full roster (one coordinator, two
\* pickers, two transporters) the run of run_mas_simulation ends only after the
\* final status summary, and then orders_processed is 3, whatever is drawn.
C13_DriverCompletes ==
    (Len(agents) = Len(DriverRoster) /\ DriverStopped)
    => (op.name = "get_system_status" /\ raised = NoException
        /\ system_metrics.orders_processed = 3)

----------------------------------------------------------------------------
\* the agent the coordinator was asked a charging station for, and was granted one
Granted(tr, o) ==
    \E i \in 1..Len(tr) :
        /\ tr[i].call = "handle_resource_request"
        /\ tr[i].request.agent_id = agent_id(o)
        /\ tr[i].result = "True"

\* C14: charging is instantaneous.  When simulate_step returns, every agent that the
\* contention pass granted a charging station is in state idle with battery 100.
C14_ChargingInstantaneous ==
    op.name = "simulate_step"
    => \A o \in AgentObjs :
         (OnBus(o) /\ Granted(trace, o))
         => (state[o] = "idle" /\ battery_level[o] = 100)

\* the agent the coordinator was asked a charging station for
Requested(tr, o) ==
    \E i \in 1..Len(tr) :
        /\ tr[i].call = "handle_resource_request"
        /\ tr[i].request.agent_id = agent_id(o)

\* C15: low-battery threshold.  In a contention pass (a coordinator is set, no
\* message is waiting) a charging station is requested for a non-coordinator agent
\* on the bus if and only if its battery level is below 20; an agent at 20 or more
\* keeps its battery level and takes no station.
C15_LowBatteryThreshold ==
    [][( /\ op'.name = "simulate_step"
         /\ coordinator # NoCoordinator
         /\ \A i \in 1..Len(agents) : message_queue[agents[i]] = <<>> )
       => \A i \in 1..Len(agents) :
            LET o == agents[i]
            IN agent_type(o) # "Coordinator"
               => /\ Requested(trace', o) <=> battery_level[o] < 20
                  /\ battery_level[o] >= 20
                     => /\ battery_level'[o] = battery_level[o]
                        /\ ~Granted(trace', o)]_vars

\* C16: battery bounds.  Every battery level is within 0..100 in every state;
\* update_battery(amount) sets the level to max(0, level - amount); a step that
\* raises a level sets it to exactly 100.
C16_BatteryBounds ==
    [][\A o \in AgentObjs :
         /\ battery_level[o] \in 0..100
         /\ battery_level'[o] \in 0..100
         /\ (op'.name = "update_battery" /\ op'.agent = o)
            => battery_level'[o] = Max(0, battery_level[o] - op'.consumption)
         /\ battery_level'[o] > battery_level[o] => battery_level'[o] = 100]_vars

\* a drain of 75 has been floored at 0: no station was ever taken and the agent has
\* picked, so its level before the drain was 0 or not a multiple of 25, never 75
C16_Witness ==
    /\ op.name = "update_battery" /\ op.consumption = 75
    /\ battery_level[op.agent] = 0
    /\ performance_metrics[op.agent].tasks_completed >= 1
    /\ \A c \in CoordinatorObjs : resource_status[c].available_stations = 3

----------------------------------------------------------------------------
\* C17: order lifecycle.  Once allocate_tasks has handed an order to a picker and to
\* a transporter (it has issued the pick request and the transport request), the
\* order is no longer in the coordinator's pending_orders.
C17_OrderLifecycle ==
    (/\ op.name = "process_order"
     /\ coordinator # NoCoordinator
     /\ Calls(trace, "handle_pick_request") # <<>>
     /\ Calls(trace, "handle_transport_request") # <<>>)
    => \A i \in 1..Len(pending_orders[coordinator]) :
          pending_orders[coordinator][i] # op.order

\* C18: pick and transport are coupled.  For every transport request allocate_tasks
\* issues, the pick request issued just before it was accepted, the transport's
\* pickup_location is the location of that pick, and its item_count is the number of
\* items the picker loaded.
C18_PickTransportCoupled ==
    op.name = "process_order"
    => LET picks == Calls(trace, "handle_pick_request")
           transports == Calls(trace, "handle_transport_request")
       IN transports # <<>>
          => /\ Len(picks) = 1 /\ Len(transports) = 1
             /\ picks[1].accepted
             /\ transports[1].request.pickup_location = picks[1].request.location
             /\ transports[1].request.item_count
                  = picks[1].load_after - picks[1].load_before

\* C19: pick acceptance.  handle_pick_request accepts a request if and only if the
\* picker is idle and current_load + len(items) <= carrying_capacity (10); after an
\* accepted request the position is the request's location, current_load has grown
\* by len(items), the battery has dropped by 2 + len(items) floored at 0,
\* tasks_completed has grown by 1 and the state is idle.
C19_PickAcceptance ==
    [][\A o \in AgentObjs :
         (op'.name = "handle_pick_request" /\ op'.agent = o)
         => LET items == op'.request.items
                accepted == state[o] = "idle" /\ current_load[o] + Len(items) <= 10
                done == performance_metrics'[o].tasks_completed
                          - performance_metrics[o].tasks_completed
            IN /\ trace'[1].accepted <=> accepted
               /\ done = (IF accepted THEN 1 ELSE 0)
               /\ accepted
                  => /\ position'[o] = op'.request.location
                     /\ current_load'[o] = current_load[o] + Len(items)
                     /\ battery_level'[o]
                          = Max(0, battery_level[o] - (2 + Len(items)))
                     /\ state'[o] = "idle"]_vars

\* a picker that carried 3 items has accepted 7 more and is idle at exactly 10
C19_Witness ==
    /\ op.name = "handle_pick_request"
    /\ trace[1].accepted
    /\ trace[1].load_before = 3 /\ current_load[op.agent] = 10
    /\ state[op.agent] = "idle"

\* C20: pick rejection frame.  A pick request to a picker that is not idle, or whose
\* load would exceed the capacity, changes none of the picker's state, position,
\* current_load, battery_level, current_task and performance counters, and nobody
\* is notified: no message is logged or queued.
C20_PickRejectionFrame ==
    [][\A o \in AgentObjs :
         (/\ op'.name = "handle_pick_request" /\ op'.agent = o
          /\ ~(state[o] = "idle"
                /\ current_load[o] + Len(op'.request.items) <= carrying_capacity(o)))
         => /\ state'[o] = state[o]
            /\ position'[o] = position[o]
            /\ current_load'[o] = current_load[o]
            /\ battery_level'[o] = battery_level[o]
            /\ current_task'[o] = current_task[o]
            /\ performance_metrics'[o] = performance_metrics[o]
            /\ message_log' = message_log
            /\ message_queue' = message_queue
            /\ system_metrics' = system_metrics]_vars

\* a charging picker with room for the items has been asked to pick, and has not
C20_Witness ==
    /\ op.name = "handle_pick_request"
    /\ ~trace[1].accepted
    /\ state[op.agent] = "charging"
    /\ current_load[op.agent] + Len(op.request.items) <= carrying_capacity(op.agent)

----------------------------------------------------------------------------
\* C21: transport request.  A transport request is accepted if and only if the
\* transporter is idle and item_count <= carrying_capacity (50); an accepted request
\* runs to completion within the call: current_load is what it was, the position is
\* the delivery location, tasks_completed has grown by 1 and the state is idle; a
\* rejected request changes nothing.
C21_TransportRequest ==
    [][\A i \in 1..Len(trace') :
         trace'[i].call = "handle_transport_request"
         => LET o == trace'[i].agent
                request == trace'[i].request
                accepted == state[o] = "idle" /\ request.item_count <= 50
            IN /\ trace'[i].accepted <=> accepted
               /\ IF accepted
                  THEN /\ raised' = NoException
                       /\ current_load'[o] = current_load[o]
                       /\ position'[o] = request.delivery_location
                       /\ performance_metrics'[o].tasks_completed
                            = performance_metrics[o].tasks_completed + 1
                       /\ state'[o] = "idle"
                  ELSE /\ current_load'[o] = current_load[o]
                       /\ position'[o] = position[o]
                       /\ performance_metrics'[o] = performance_metrics[o]
                       /\ state'[o] = state[o]
                       /\ current_task'[o] = current_task[o]]_vars

----------------------------------------------------------------------------
\* the first agent of a role in a registry that is idle
FirstIdle(registry, kind) ==
    LET Idle(i) == agent_type(registry[i]) = kind /\ state[registry[i]] = "idle"
    IN registry[CHOOSE i \in 1..Len(registry) :
                  Idle(i) /\ \A j \in 1..(i - 1) : ~Idle(j)]

\* C22: allocation choice.  When the registry holds an idle Picker and an idle
\* Transport agent, allocate_tasks sends the one pick request to the first idle
\* Picker and the one transport request to the first idle Transport agent in
\* registry order, and no other agent's state, load, position, battery or counters
\* change.
C22_AllocationChoice ==
    [][( /\ op'.name = "process_order"
         /\ coordinator # NoCoordinator
         /\ \E p, t \in Registered(coordinator) :
               /\ agent_type(p) = "Picker" /\ state[p] = "idle"
               /\ agent_type(t) = "Transport" /\ state[t] = "idle" )
       => LET picker == FirstIdle(agent_registry[coordinator], "Picker")
              transporter == FirstIdle(agent_registry[coordinator], "Transport")
              picks == Calls(trace', "handle_pick_request")
              transports == Calls(trace', "handle_transport_request")
          IN /\ Len(picks) = 1 /\ picks[1].agent = picker
             /\ Len(transports) = 1 /\ transports[1].agent = transporter
             /\ \A o \in AgentObjs \ {picker, transporter} :
                   /\ state'[o] = state[o]
                   /\ position'[o] = position[o]
                   /\ battery_level'[o] = battery_level[o]
                   /\ performance_metrics'[o] = performance_metrics[o]
                   /\ current_task'[o] = current_task[o]
                   /\ o \in CarrierObjs => current_load'[o] = current_load[o]]_vars

\* PICKER_01 is moving and TRANSPORT_01 is working: the order went to PICKER_02 and
\* TRANSPORT_02, the second entries of their roles
C22_Witness ==
    /\ op.name = "process_order"
    /\ Len(agents) = Len(DriverRoster)
    /\ state[2] = "moving" /\ state[3] = "working"
    /\ Len(trace) = 2
    /\ trace[1].call = "handle_pick_request" /\ trace[1].agent = 4
    /\ trace[2].call = "handle_transport_request" /\ trace[2].agent = 5

----------------------------------------------------------------------------
\* C23: no revisit of pending orders.  A simulate_step (with no message waiting)
\* issues no pick and no transport request, and a process_order issues them only
\* for the order it was given: an order left pending is never allocated later.
C23_NoRevisit ==
    [][LET picks == Calls(trace', "handle_pick_request")
           transports == Calls(trace', "handle_transport_request")
       IN /\ ( /\ op'.name = "simulate_step"
               /\ \A i \in 1..Len(agents) : message_queue[agents[i]] = <<>> )
             => (picks = <<>> /\ transports = <<>>)
          /\ op'.name = "process_order"
             => /\ Len(picks) <= 1 /\ Len(transports) <= 1
                /\ \A i \in 1..Len(picks) : picks[i].request.items = op'.order.items
                /\ \A i \in 1..Len(transports) :
                      transports[i].request.item_count = Len(op'.order.items)]_vars

\* ORD_001 arrived before the transporter and was left pending; ORD_003 arrived after
\* it and was allocated: the picker carries the 4 items of ORD_003 only
C23_Witness ==
    /\ op.name = "process_order" /\ op.order.order_id = "ORD_003"
    /\ coordinator # NoCoordinator
    /\ Len(pending_orders[coordinator]) = 2
    /\ pending_orders[coordinator][1].order_id = "ORD_001"
    /\ Len(Calls(trace, "handle_pick_request")) = 1
    /\ Len(Calls(trace, "handle_transport_request")) = 1
    /\ current_load[2] = 4

----------------------------------------------------------------------------
\* C24: moving is transient.  When a move_to_location call has completed, the agent
\* is back in the state it held before the move, and no agent that was not moving
\* is in state moving when an operation returns.
C24_MovingTransient ==
    [][\A o \in AgentObjs :
         /\ (op'.name = "move_to_location" /\ op'.agent = o /\ raised' = NoException)
            => (position'[o] \in MoveTargets /\ state'[o] = state[o])
         /\ state[o] # "moving" => state'[o] # "moving"]_vars

----------------------------------------------------------------------------
\* the place of an agent on the bus
BusIndex(o) == CHOOSE i \in 1..Len(agents) : agents[i] = o

\* C25: step ordering.  Within a simulate_step every message is handled before any
\* charging station is requested, the agents are drained in bus order, and when
\* the step is over the message queue of every agent on the bus is empty.
C25_StepOrdering ==
    op.name = "simulate_step"
    => /\ \A i, j \in 1..Len(trace) :
            (trace[i].call = "handle_resource_request"
             /\ trace[j].call = "handle_message") => j < i
       /\ \A i, j \in 1..Len(trace) :
            (trace[i].call = "handle_message" /\ trace[j].call = "handle_message"
             /\ i < j) => BusIndex(trace[i].agent) <= BusIndex(trace[j].agent)
       /\ \A i \in 1..Len(agents) : message_queue[agents[i]] = <<>>

----------------------------------------------------------------------------
\* the requests of a trace that a coordinator granted
Grants(tr, c) ==
    SelectSeq(tr, LAMBDA e : e.call = "handle_resource_request" /\ e.agent = c
                             /\ e.result = "True")

\* C26: charging stations are never released.  No step raises available_stations;
\* it stays within 0..3 and drops by exactly the number of requests granted in the
\* step, so that 3 - available_stations grants have occurred in all, and while it
\* is 0 every charging request is denied.
C26_StationsNeverReleased ==
    [][\A c \in CoordinatorObjs :
         LET available == resource_status[c].available_stations
             requests == SelectSeq(trace', LAMBDA e : e.call = "handle_resource_request"
                                                      /\ e.agent = c)
         IN /\ resource_status'[c].available_stations <= available
            /\ resource_status'[c].available_stations \in 0..3
            /\ resource_status'[c].charging_stations = 3
            /\ available - resource_status'[c].available_stations = Len(Grants(trace', c))
            /\ available = 0
               => \A i \in 1..Len(requests) : requests[i].result = "False"]_vars

\* a request made after the three stations were granted: it is denied
C26_Witness ==
    /\ op.name = "simulate_step"
    /\ coordinator # NoCoordinator
    /\ resource_status[coordinator].available_stations = 0
    /\ Len(trace) = 1
    /\ trace[1].call = "handle_resource_request"
    /\ trace[1].available_before = 0 /\ trace[1].result = "False"
    /\ \E o \in AgentObjs : OnBus(o) /\ state[o] = "charging" /\ battery_level[o] < 30

----------------------------------------------------------------------------
\* C27: a Picker's current_load never decreases.  No step lowers a picker's load,
\* the load stays within 0..10 (so a picker accepts at most 10 items in all), and a
\* pick request for more items than the picker's remaining capacity is rejected and
\* leaves the load as it is; as the load never drops, so is every later one.
C27_PickerLoadMonotone ==
    [][\A o \in Pickers :
         /\ current_load'[o] >= current_load[o]
         /\ current_load'[o] \in 0..10
         /\ \A i \in 1..Len(trace') :
              (/\ trace'[i].call = "handle_pick_request" /\ trace'[i].agent = o
               /\ 10 - current_load[o] < Len(trace'[i].request.items))
              => (~trace'[i].accepted /\ current_load'[o] = current_load[o])]_vars

\* an allocation has offered 4 items to an idle picker that carries 7: rejected
C27_Witness ==
    /\ op.name = "process_order"
    /\ Len(op.order.items) = 4
    /\ trace # <<>>
    /\ trace[1].call = "handle_pick_request"
    /\ ~trace[1].accepted
    /\ trace[1].load_before = 7
    /\ current_load[trace[1].agent] = 7

----------------------------------------------------------------------------
\* some add_agent(o) call came after some add_agent(c) call
AddedAfter(o, c) ==
    \E i, j \in 1..Len(hist_added) :
        i < j /\ hist_added[i] = c /\ hist_added[j] = o

\* the current coordinator's registry holds agents of the bus only, no coordinator,
\* and of the non-coordinator agents on the bus exactly those added after that
\* coordinator was; while no coordinator is set nothing is registered anywhere
RegistryConsistent ==
    IF coordinator = NoCoordinator
    THEN \A c \in CoordinatorObjs : agent_registry[c] = <<>>
    ELSE /\ \A o \in Registered(coordinator) :
              OnBus(o) /\ agent_type(o) # "Coordinator"
         /\ \A o \in AgentObjs :
              (OnBus(o) /\ agent_type(o) # "Coordinator")
              => (o \in Registered(coordinator) <=> AddedAfter(o, coordinator))

\* C28 as stated: registry consistency after any sequence of add_agent calls.
C28_RegistryConsistency == RegistryConsistent

\* no coordinator was added again after another coordinator had been added
NoCoordinatorRestored ==
    \A i, k, j \in 1..Len(hist_added) :
        (i < k /\ k < j /\ hist_added[i] = hist_added[j]
         /\ agent_type(hist_added[i]) = "Coordinator")
        => ~(agent_type(hist_added[k]) = "Coordinator"
             /\ hist_added[k] # hist_added[i])

\* C28, amended: registry consistency after any sequence of add_agent calls in which
\* no coordinator is added again after another coordinator has replaced it.
C28_RegistryConsistencyAmended == NoCoordinatorRestored => RegistryConsistent

\* an agent was added before any coordinator, then COORD_01, then COORD_02, then
\* another agent: COORD_02 has registered the last one only
C28_Witness ==
    /\ NoCoordinatorRestored
    /\ Len(hist_added) = 4
    /\ agent_type(hist_added[1]) # "Coordinator"
    /\ hist_added[2] = 1 /\ hist_added[3] = 8
    /\ coordinator = 8
    /\ OnBus(hist_added[1]) /\ hist_added[1] \notin Registered(8)
    /\ Registered(8) = {hist_added[4]}

----------------------------------------------------------------------------
\* C29: every process_order call raises orders_processed by exactly 1; a call made
\* while no coordinator is set raises no error and changes nothing else of the
\* bus, the coordinators and the agents.
C29_ProcessOrderCount ==
    [][op'.name = "process_order"
       => /\ system_metrics'.orders_processed = system_metrics.orders_processed + 1
          /\ coordinator = NoCoordinator
             => /\ raised' = NoException
                /\ trace' = <<>>
                /\ system_metrics'
                     = [system_metrics EXCEPT !.orders_processed = @ + 1]
                /\ UNCHANGED <<agents, coordinator, message_log, position, state,
                               battery_level, message_queue, current_task,
                               performance_metrics, current_load, pending_orders,
                               resource_status, agent_registry, clock>>]_vars

\* an order was processed on a bus that holds agents but no coordinator
C29_Witness ==
    /\ op.name = "process_order"
    /\ coordinator = NoCoordinator
    /\ agents # <<>>
    /\ system_metrics.orders_processed = 2

----------------------------------------------------------------------------
\* C30: execute_plan terminates.  Every call of execute_plan returns, after at most
\* 20 loop iterations (each iteration is one step and one call of path_planning), and
\* the position it returns is the goal exactly when one of the positions of the run
\* (the start state or the position after an iteration) was the goal.
C30_ExecutePlanTerminates ==
    (plan_run.pc = "loop")
    ~> ( /\ plan_run.pc = "done"
         /\ plan_run.step_count <= 20
         /\ Len(goal_agent.actions) = plan_run.step_count
         /\ plan_run.ret = goal_agent.goal <=> goal_agent.goal \in plan_run.visited )

\* a run that jumped to and fro over a blocked goal for all of its 20 iterations
C30_Witness ==
    /\ plan_run.pc = "done"
    /\ plan_run.step_count = 20
    /\ plan_run.ret # goal_agent.goal
    /\ goal_agent.goal \in plan_run.obstacles
    /\ \E before, beyond \in plan_run.visited :
          before < goal_agent.goal /\ goal_agent.goal < beyond

====
